---- MODULE Spec2Model ----
(***************************************************************************)
(* A model of pytorch/evaluate.py: the StatisticsContainer (the statistics *)
(* log), Evaluator.evaluate (the evaluation pipeline and its metric loop)  *)
(* and Evaluator.visualize (the clip-level gate and the call of the        *)
(* activity detector), and of the activity detector itself, which          *)
(* evaluate.py calls by name without defining or importing it.             *)
(***************************************************************************)
EXTENDS Naturals, Integers, Sequences, FiniteSets, TLC

\* ------------------------------------------------------------------ bounds
MaxCalls == 2
MaxTime == 2
MaxLogs == 2
MaxIter == 2
MaxEvals == 2
MaxClips == 2
MaxShown == 2
MaxFrames == 4
MaxWindow == 2

VARIABLES
    \* StatisticsContainer and the process that owns it
    logs,                     \* containers created so far, one per process
    now,                      \* datetime.datetime.now(), to the second
    created,                  \* the time the current container was created
    heap,                     \* the caller's statistics dicts, by identity
    statistics_path,          \* self.statistics_path
    backup_statistics_path,   \* self.backup_statistics_path
    statistics_list,          \* self.statistics_list: references into heap
    disk,                     \* the files, by path
    history,                  \* the calls made on the current container
    prior,                    \* the primary file when the container was made
    \* Evaluator.evaluate: the calls made and what the last one did
    evals,                    \* calls of evaluate so far
    forward_calls,            \* invocations of forward so far
    output_dict,              \* what forward gave the last call
    reference_dict,           \* read_csv_file_for_sed_eval_tool(metadata_path)
    predict_dict,             \* read_csv_file_for_sed_eval_tool(submission_path)
    submission_written,       \* the last call ran write_submission
    files_read,               \* the files the last call read, in order
    event_fed,                \* the pairs given to event_based_metric.evaluate
    segment_fed,              \* the pairs given to segment_based_metric.evaluate
    outcome,                  \* how the last call ended
    \* Evaluator.visualize: the clips gone through and the last one
    frames_per_second,        \* config.frames_per_second
    shown,                    \* clips visualize has gone through
    clipwise_output,          \* output_dict['clipwise_output'][n], by class
    framewise_output,         \* output_dict['framewise_output'][n], by class
    event_prediction,         \* the frame mask built for the clip, by class
    detector_calls,           \* the classes activity_detection ran on
    vis_outcome,              \* how the clip's iteration ended
    \* the activity detector, on its own, on one sequence of scores
    x,                        \* the framewise scores given to the detector
    params,                   \* thres, low_thres, n_smooth, n_salt
    bgn_fin_pairs,            \* the intervals returned
    detected                  \* the detector has returned

logVars == <<logs, now, created, heap, statistics_path, backup_statistics_path,
             statistics_list, disk, history, prior>>

evalVars == <<evals, forward_calls, output_dict, reference_dict, predict_dict,
              submission_written, files_read, event_fed, segment_fed, outcome>>

visVars == <<frames_per_second, shown, clipwise_output, framewise_output,
             event_prediction, detector_calls, vis_outcome>>

detVars == <<x, params, bgn_fin_pairs, detected>>

vars == <<logVars, evalVars, visVars, detVars>>

\* ------------------------------------------------------- StatisticsContainer
\* The statistics dicts the caller holds, by identity.
Objs == {"d1", "d2"}
Iterations == 1..MaxIter
Times == 1..MaxTime

\* What the caller may pass as statistics: one of its dicts, or a value that
\* takes no item assignment (None).
NotADict == "None"
Args == Objs \cup {NotADict}

\* How one cPickle.dump(self.statistics_list, open(path, 'wb')) goes:
\*   "ok"          the bytes reach the file;
\*   "open_fails"  open raises, the file is untouched;
\*   "write_fails" open has truncated the file and dump raises;
\*   "flush_lost"  dump returns with the bytes still in the buffer of the
\*                 file object, which is never closed; the flush at its
\*                 deallocation fails, the error is discarded, the call goes
\*                 on and the file is left truncated.
IOs == {"ok", "open_fails", "write_fails", "flush_lost"}
Raises(io) == io \in {"open_fails", "write_fails"}

\* The path given to the constructor: stem and extension, no timestamp.
PrimaryPath == [stem |-> "statistics", stamp |-> <<>>, ext |-> ".pkl"]

\* '{}_{}.pickle'.format(os.path.splitext(path)[0], now.strftime(...))
BackupPath(path, t) == [stem |-> path.stem, stamp |-> <<t>>, ext |-> ".pickle"]

Paths == {PrimaryPath} \cup {BackupPath(PrimaryPath, t) : t \in Times}

Absent == [state |-> "absent", data |-> <<>>]
Partial == [state |-> "partial", data |-> <<>>]
Complete(data) == [state |-> "complete", data |-> data]

\* A statistics dict as the caller built it: no 'iteration' key yet.
FreshDict(o) == [average_precision |-> o, iteration |-> <<>>]
FreshHeap == [o \in Objs |-> FreshDict(o)]

\* cPickle.dump(self.statistics_list, ...): the dicts' values at dump time.
Pickle(list, h) == [i \in 1..Len(list) |-> h[list[i]]]

\* open(path, 'wb') truncates the file, then dump writes it out.
Dump(d, path, data, io) ==
    CASE io = "open_fails" -> d
      [] io = "write_fails" -> [d EXCEPT ![path] = Partial]
      [] io = "flush_lost" -> [d EXCEPT ![path] = Partial]
      [] OTHER -> [d EXCEPT ![path] = Complete(data)]

\* The path the second dump of append_and_dump writes to.
BackupTarget == backup_statistics_path

\* The process stops (normally or by a crash) and a new process calls
\* StatisticsContainer.__init__ on the same primary path: the memory of the
\* old process is gone, the files stay.
StatisticsContainer_init ==
    /\ logs < MaxLogs
    /\ logs' = logs + 1
    /\ created' = now
    /\ statistics_path' = PrimaryPath
    /\ backup_statistics_path' = BackupPath(PrimaryPath, now)
    /\ statistics_list' = <<>>
    /\ heap' = FreshHeap
    /\ history' = <<>>
    /\ prior' = disk[PrimaryPath]
    /\ UNCHANGED <<now, disk>>
    /\ UNCHANGED <<evalVars, visVars, detVars>>

\* StatisticsContainer.append_and_dump(iteration, statistics), with how the
\* dump to the primary file (pio) and the dump to the backup file (bio) go.
\* A statistics that is no dict raises TypeError at line 258, before the
\* append; a dump that raises ends the call there.
append_and_dump(iteration, statistics, pio, bio) ==
    /\ Len(history) < MaxCalls
    /\ IF statistics \notin Objs
          THEN /\ UNCHANGED <<heap, statistics_list, disk>>
               /\ history' = Append(history, [statistics |-> statistics,
                                              iteration |-> iteration,
                                              result |-> "raised",
                                              at |-> "tag",
                                              dumped |-> <<>>])
          ELSE LET h1 == [heap EXCEPT ![statistics].iteration = <<iteration>>]
                   l1 == Append(statistics_list, statistics)
                   d1 == Dump(disk, statistics_path, Pickle(l1, h1), pio)
                   d2 == IF Raises(pio) THEN d1
                         ELSE Dump(d1, BackupTarget, Pickle(l1, h1), bio)
               IN /\ heap' = h1
                  /\ statistics_list' = l1
                  /\ disk' = d2
                  /\ history' = Append(history,
                         [statistics |-> statistics,
                          iteration |-> iteration,
                          result |-> IF Raises(pio) \/ Raises(bio)
                                     THEN "raised" ELSE "returned",
                          at |-> IF Raises(pio) THEN "primary"
                                 ELSE IF Raises(bio) THEN "backup" ELSE "",
                          dumped |-> Pickle(l1, h1)])
    /\ UNCHANGED <<logs, now, created, statistics_path,
                   backup_statistics_path, prior>>
    /\ UNCHANGED <<evalVars, visVars, detVars>>

\* The calls of append_and_dump a caller can make: the dumps that do not run
\* have no outcome of their own.
Calls ==
    {c \in [iteration : Iterations, statistics : Args, pio : IOs, bio : IOs] :
        /\ (c.statistics \notin Objs) => (c.pio = "ok" /\ c.bio = "ok")
        /\ Raises(c.pio) => c.bio = "ok"}

\* The wall clock advances by a second.
Tick ==
    /\ now < MaxTime
    /\ now' = now + 1
    /\ UNCHANGED <<logs, created, heap, statistics_path,
                   backup_statistics_path, statistics_list, disk, history, prior>>
    /\ UNCHANGED <<evalVars, visVars, detVars>>

\* ------------------------------------------------------- Evaluator.evaluate
ClipNames == {"a.wav", "b.wav"}
ReferenceLists == {<<"Dog">>}
PredictionLists == {<<"Dog">>, <<"Cat", "Dog">>}
Errors == {"RuntimeError", "OSError"}
TargetKeys == {"weak_target", "strong_target"}

\* The mappings read_csv_file_for_sed_eval_tool can give: clip -> event list.
ReferenceDicts == UNION {[S -> ReferenceLists] : S \in SUBSET ClipNames}
PredictionDicts == UNION {[S -> PredictionLists] : S \in SUBSET ClipNames}

NameSeqs == UNION {[1..n -> ClipNames] : n \in 0..MaxClips}

\* What forward can do: raise, or give an output_dict with clipwise_output,
\* audio_name and the target keys the data split has.
ForwardResults ==
    {[ok |-> FALSE, error |-> e, keys |-> {}, audio_name |-> <<>>] : e \in Errors}
    \cup {[ok |-> TRUE, error |-> "", keys |-> k, audio_name |-> a] :
              k \in SUBSET TargetKeys, a \in NameSeqs}

NoOutput == [ok |-> FALSE, error |-> "", keys |-> {}, audio_name |-> <<>>]

Raised(e) == [kind |-> "raised", error |-> e, none |-> FALSE, keys |-> {}]
ReturnedNone == [kind |-> "returned", error |-> "", none |-> TRUE, keys |-> {}]
Returned(keys) == [kind |-> "returned", error |-> "", none |-> FALSE, keys |-> keys]
NotCalled == [kind |-> "not called", error |-> "", none |-> FALSE, keys |-> {}]

\* if audio_name in d.keys(): d[audio_name] else: []
ListOf(d, audio_name) == IF audio_name \in DOMAIN d THEN d[audio_name] ELSE <<>>

\* A loop that leaves out the clips the reference file does not name.
MetricLoop_skip_missing(names, ref, pred) ==
    LET RECURSIVE Loop(_, _)
        Loop(i, fed) ==
            IF i > Len(names) THEN fed
            ELSE IF names[i] \in DOMAIN ref
                 THEN Loop(i + 1, Append(fed, <<ref[names[i]],
                                                ListOf(pred, names[i])>>))
                 ELSE Loop(i + 1, fed)
    IN Loop(1, <<>>)

\* for audio_name in output_dict['audio_name']: the (ref_list, pred_list)
\* pairs given to an engine's evaluate, in order.
MetricLoop(names, ref, pred) ==
    LET RECURSIVE Loop(_, _)
        Loop(i, fed) ==
            IF i > Len(names) THEN fed
            ELSE Loop(i + 1, Append(fed, <<ListOf(ref, names[i]),
                                           ListOf(pred, names[i])>>))
    IN Loop(1, <<>>)

\* An evaluate that runs forward once more when it fails.
ForwardInvocations_retry(fwd) == IF fwd.ok THEN 1 ELSE 2

\* forward(...) is called at one place, outside any loop or handler.
ForwardInvocations(fwd) == 1

\* Evaluator.evaluate(data_type, metadata_path, submission_path), with what
\* forward and the two csv reads give.
evaluate(fwd, ref, pred) ==
    /\ evals < MaxEvals
    /\ evals' = evals + 1
    /\ forward_calls' = forward_calls + ForwardInvocations(fwd)
    /\ output_dict' = fwd
    /\ IF fwd.ok /\ fwd.keys = TargetKeys
          THEN reference_dict' = ref /\ predict_dict' = pred
          ELSE reference_dict' = <<>> /\ predict_dict' = <<>>
    /\ IF ~fwd.ok
          THEN \* forward raises: nothing catches it
               /\ outcome' = Raised(fwd.error)
               /\ submission_written' = FALSE
               /\ files_read' = <<>>
               /\ event_fed' = <<>>
               /\ segment_fed' = <<>>
       ELSE IF "weak_target" \notin fwd.keys
          THEN \* average_precision is read at line 80 and was never bound
               /\ outcome' = Raised("UnboundLocalError")
               /\ submission_written' = FALSE
               /\ files_read' = <<>>
               /\ event_fed' = <<>>
               /\ segment_fed' = <<>>
       ELSE IF "strong_target" \in fwd.keys
          THEN /\ submission_written' = TRUE
               /\ files_read' = <<"metadata_path", "submission_path">>
               /\ event_fed' = MetricLoop(fwd.audio_name, ref, pred)
               /\ segment_fed' = MetricLoop(fwd.audio_name, ref, pred)
               /\ outcome' = Returned({"average_precision", "event_metrics",
                                       "segment_metrics"})
          ELSE \* the return statement is inside the if: the call ends without one
               /\ outcome' = ReturnedNone
               /\ submission_written' = FALSE
               /\ files_read' = <<>>
               /\ event_fed' = <<>>
               /\ segment_fed' = <<>>
    /\ UNCHANGED <<logVars, visVars, detVars>>

EvalStart ==
    /\ evals = 0
    /\ forward_calls = 0
    /\ output_dict = NoOutput
    /\ reference_dict = <<>>
    /\ predict_dict = <<>>
    /\ submission_written = FALSE
    /\ files_read = <<>>
    /\ event_fed = <<>>
    /\ segment_fed = <<>>
    /\ outcome = NotCalled

EvalNext ==
    \E fwd \in ForwardResults, ref \in ReferenceDicts, pred \in PredictionDicts :
        evaluate(fwd, ref, pred)

\* ------------------------------------------------------- activity detector
\* Scores and thresholds are in tenths: 9 stands for 0.9.
AudioTaggingThreshold == 5
SedHighThreshold == 9
SedLowThreshold == 5

\* Hysteresis: the maximal runs of frames at or above low_thres that hold a
\* frame at or above thres, as [bgn, fin) pairs in frame order.
Hysteresis(scores, thres, low_thres) ==
    LET F == Len(scores)
        RECURSIVE Scan(_, _, _, _)
        Scan(t, bgn, high, acc) ==
            IF t = F
            THEN IF bgn >= 0 /\ high THEN Append(acc, <<bgn, F>>) ELSE acc
            ELSE IF scores[t + 1] >= low_thres
                 THEN Scan(t + 1, IF bgn >= 0 THEN bgn ELSE t,
                           (bgn >= 0 /\ high) \/ scores[t + 1] >= thres, acc)
                 ELSE Scan(t + 1, -1, FALSE,
                           IF bgn >= 0 /\ high THEN Append(acc, <<bgn, t>>)
                           ELSE acc)
    IN Scan(0, -1, FALSE, <<>>)

\* A gap smoothing that adds the merged segment and keeps the earlier one.
Smooth_keep_earlier(pairs, n_smooth) ==
    LET RECURSIVE Merge(_, _)
        Merge(i, acc) ==
            IF i > Len(pairs) THEN acc
            ELSE IF acc # <<>> /\ pairs[i][1] - acc[Len(acc)][2] < n_smooth
                 THEN Merge(i + 1, Append(acc, <<acc[Len(acc)][1], pairs[i][2]>>))
                 ELSE Merge(i + 1, Append(acc, pairs[i]))
    IN Merge(1, <<>>)

\* Gap smoothing: two adjacent segments merge when the gap between them is
\* strictly shorter than n_smooth frames.
Smooth(pairs, n_smooth) ==
    LET RECURSIVE Merge(_, _)
        Merge(i, acc) ==
            IF i > Len(pairs) THEN acc
            ELSE IF acc # <<>> /\ pairs[i][1] - acc[Len(acc)][2] < n_smooth
                 THEN Merge(i + 1, [acc EXCEPT ![Len(acc)] =
                                       <<acc[Len(acc)][1], pairs[i][2]>>])
                 ELSE Merge(i + 1, Append(acc, pairs[i]))
    IN Merge(1, <<>>)

\* Salt removal: segments shorter than n_salt frames are dropped.
RemoveSalt(pairs, n_salt) ==
    LET Keep(p) == p[2] - p[1] >= n_salt
    IN SelectSeq(pairs, Keep)

activity_detection(scores, thres, low_thres, n_smooth, n_salt) ==
    RemoveSalt(Smooth(Hysteresis(scores, thres, low_thres), n_smooth), n_salt)

\* The frames event_prediction[pair[0] : pair[1], k] = 1 writes, in an array
\* of F frames.
SliceFrames(pair, F) ==
    LET fin == IF pair[2] < F THEN pair[2] ELSE F
    IN [i \in 1..(fin - pair[1]) |-> pair[1] + i - 1]

\* for pair in bgn_fin_pairs: event_prediction[pair[0] : pair[1], k] = 1,
\* as a function of the pairs: the frames written, in writing order.
MarkFrames(pairs, F) ==
    LET RECURSIVE Mark(_, _)
        Mark(i, acc) ==
            IF i > Len(pairs) THEN acc
            ELSE Mark(i + 1, acc \o SliceFrames(pairs[i], F))
    IN Mark(1, <<>>)

ScoreLevels == {1, 5, 7, 9, 10}
ThresholdLevels == {3, 5, 9}
ScoreSeqs == UNION {[1..n -> ScoreLevels] : n \in 0..MaxFrames}
ParamSets ==
    {q \in [thres : ThresholdLevels, low_thres : ThresholdLevels,
             n_smooth : 0..MaxWindow, n_salt : 0..MaxWindow] :
        q.low_thres <= q.thres}

\* The detector on its own: detect(scores, high_threshold, low_threshold,
\* smooth_window, salt_window) returns its intervals. This is no step of
\* evaluate.py, where the name activity_detection is unbound and the call
\* raises NameError (visualize_clip is the model of that call).
detect ==
    /\ ~detected
    /\ detected' = TRUE
    /\ bgn_fin_pairs' = activity_detection(x, params.thres, params.low_thres,
                                           params.n_smooth, params.n_salt)
    /\ UNCHANGED <<x, params>>
    /\ UNCHANGED <<logVars, evalVars, visVars>>

DetStart ==
    /\ x = <<>>
    /\ params = [thres |-> SedHighThreshold, low_thres |-> SedLowThreshold,
                 n_smooth |-> 0, n_salt |-> 0]
    /\ bgn_fin_pairs = <<>>
    /\ detected = FALSE

DetInputs ==
    /\ x \in ScoreSeqs
    /\ params \in ParamSets
    /\ bgn_fin_pairs = <<>>
    /\ detected = FALSE

\* ------------------------------------------------------ Evaluator.visualize
Classes == {"Speech", "Dog"}
FpsChoices == {1, 4, 8}
ClipScores == [Classes -> ScoreLevels]
FrameLevels == {1, 10}
FrameScores == [Classes -> [1..2 -> FrameLevels]]

\* Evaluator.__init__: the hyper-parameters for predicting events.
sed_params_dict ==
    [audio_tagging_threshold |-> AudioTaggingThreshold,
     sed_high_threshold |-> SedHighThreshold,
     sed_low_threshold |-> SedLowThreshold,
     n_smooth |-> frames_per_second \div 4,
     n_salt |-> frames_per_second \div 4]

\* The test that lets a class of a clip into the detector.
Gate(score) == score > sed_params_dict.sed_high_threshold

ZeroMask(fw) == [k \in Classes |-> [t \in 1..Len(fw[k]) |-> 0]]

\* One clip of visualize's loop over the clips, up to the plot. The name
\* activity_detection is neither defined nor imported in evaluate.py: the
\* first class that passes the gate ends the call with a NameError.
visualize_clip(cw, fw) ==
    /\ shown < MaxShown
    /\ shown' = shown + 1
    /\ clipwise_output' = cw
    /\ framewise_output' = fw
    /\ event_prediction' = ZeroMask(fw)
    /\ detector_calls' = {}
    /\ vis_outcome' = IF \E k \in Classes : Gate(cw[k])
                      THEN "NameError" ELSE "plotted"
    /\ UNCHANGED frames_per_second
    /\ UNCHANGED <<logVars, evalVars, detVars>>

VisStart ==
    /\ frames_per_second = 4
    /\ shown = 0
    /\ clipwise_output = [k \in Classes |-> 1]
    /\ framewise_output = [k \in Classes |-> <<>>]
    /\ event_prediction = [k \in Classes |-> <<>>]
    /\ detector_calls = {}
    /\ vis_outcome = "not called"

VisInputs ==
    /\ frames_per_second \in FpsChoices
    /\ shown = 0
    /\ clipwise_output = [k \in Classes |-> 1]
    /\ framewise_output = [k \in Classes |-> <<>>]
    /\ event_prediction = [k \in Classes |-> <<>>]
    /\ detector_calls = {}
    /\ vis_outcome = "not called"

VisNext == \E cw \in ClipScores, fw \in FrameScores : visualize_clip(cw, fw)

LogStart ==
    /\ logs = 1
    /\ now = 1
    /\ created = 1
    /\ heap = FreshHeap
    /\ statistics_path = PrimaryPath
    /\ backup_statistics_path = BackupPath(PrimaryPath, 1)
    /\ statistics_list = <<>>
    /\ disk = [p \in Paths |-> Absent]
    /\ history = <<>>
    /\ prior = Absent

LogInit == LogStart /\ EvalStart /\ VisStart /\ DetStart

\* One container, from its creation on.
LogNext ==
    \/ \E c \in Calls : append_and_dump(c.iteration, c.statistics, c.pio, c.bio)
    \/ Tick

SpecLog == LogInit /\ [][LogNext]_vars

\* Containers created one after the other on the same primary path.
RestartNext ==
    \/ \E c \in Calls : append_and_dump(c.iteration, c.statistics, c.pio, c.bio)
    \/ Tick
    \/ StatisticsContainer_init

SpecRestart == LogInit /\ [][RestartNext]_vars

\* Calls of evaluate, one after the other.
SpecEval == LogInit /\ [][EvalNext]_vars

\* visualize over the clips of a split, for each frame rate.
VisInit == LogStart /\ EvalStart /\ VisInputs /\ DetStart

SpecVis == VisInit /\ [][VisNext]_vars

\* The detector on every score sequence and parameter set of the bounds.
DetInit == LogStart /\ EvalStart /\ VisStart /\ DetInputs

SpecDetect == DetInit /\ [][detect]_vars

\* ------------------------------------------------ StatisticsContainer: claims
Completed == {i \in DOMAIN history : history[i].result = "returned"}
AllCompleted == Completed = DOMAIN history
LastCall == history[Len(history)]
LastCompleted == CHOOSE i \in Completed : \A j \in Completed : j <= i
IsAppend(c) == c.statistics \in Objs
Appends == SelectSeq(history, IsAppend)

\* C1: after n completed append_and_dump calls on one container (and no
\* failed one) statistics_list holds exactly the n dicts passed, in call
\* order, and the primary file and the backup file each hold that entire
\* sequence, identical to each other; the backup path is the one computed
\* from the primary path and the creation time, and no other path is written.
C1_FullSequencePersisted ==
    /\ backup_statistics_path = BackupPath(statistics_path, created)
    /\ \A p \in Paths \ {statistics_path, BackupPath(statistics_path, created)} :
           disk[p] = Absent
    /\ (history # <<>> /\ AllCompleted) =>
           /\ Len(statistics_list) = Len(history)
           /\ \A i \in DOMAIN history : statistics_list[i] = history[i].statistics
           /\ disk[statistics_path].state = "complete"
           /\ Len(disk[statistics_path].data) = Len(history)
           /\ \A i \in DOMAIN history :
                  disk[statistics_path].data[i] = heap[statistics_list[i]]
           /\ disk[backup_statistics_path] = disk[statistics_path]

\* C2: when a call is interrupted during the write of the primary file, the
\* backup file holds, complete, the full sequence written by the last call
\* that completed.
C2_BackupHoldsLastCompleted ==
    (history # <<>> /\ LastCall.at = "primary" /\ Completed # {}) =>
        disk[backup_statistics_path] = Complete(history[LastCompleted].dumped)

\* C4: a call either completes, and its dict is the last of statistics_list
\* and of both files, tagged with its iteration, or fails, and its dict is
\* neither in statistics_list nor in what a later call persists; no file is
\* ever left partially written.
C4_NoPartialRecord ==
    /\ Len(statistics_list) = Cardinality(Completed)
    /\ \A i \in Completed :
           Len(history[i].dumped) = Cardinality({j \in Completed : j <= i})
    /\ \A p \in Paths : disk[p].state # "partial"
    /\ (history # <<>> /\ LastCall.result = "returned") =>
           /\ statistics_list[Len(statistics_list)] = LastCall.statistics
           /\ heap[LastCall.statistics].iteration = <<LastCall.iteration>>
           /\ disk[statistics_path] = Complete(LastCall.dumped)
           /\ disk[backup_statistics_path] = Complete(LastCall.dumped)

\* C10: the i-th dict of statistics_list, and of every file written, carries
\* the iteration given to the i-th call that appended, whatever later calls
\* were made.
C10_EarlierRecordsUnchanged ==
    /\ \A i \in DOMAIN statistics_list :
           heap[statistics_list[i]].iteration = <<Appends[i].iteration>>
    /\ \A p \in Paths : \A i \in DOMAIN disk[p].data :
           disk[p].data[i].iteration = <<Appends[i].iteration>>

\* C3: once a new container on the same primary path has completed its first
\* append_and_dump and the primary file is written out, every record that
\* the primary file held when the container was created is still in it.
C3_DurableAcrossRestarts ==
    (logs > 1 /\ Len(history) = 1 /\ LastCall.result = "returned"
        /\ disk[statistics_path].state = "complete") =>
        \A i \in DOMAIN prior.data :
            \E j \in DOMAIN disk[statistics_path].data :
                disk[statistics_path].data[j] = prior.data[i]

\* -------------------------------------------------- Evaluator.evaluate: claims
\* C5: a call whose forward pass gives clip-level targets and no frame-level
\* targets returns a statistics record holding average_precision only; and
\* every call returns a populated record or raises.
C5_ClipLevelRecordReturned ==
    /\ (evals > 0 /\ output_dict.ok /\ output_dict.keys = {"weak_target"}) =>
           outcome = Returned({"average_precision"})
    /\ evals > 0 =>
           \/ outcome.kind = "raised"
           \/ outcome.kind = "returned" /\ ~outcome.none /\ outcome.keys # {}

\* C7: with both kinds of target present the call does not raise, and the
\* i-th pair given to the event-based engine and to the segment-based engine
\* is the reference mapping's and the prediction mapping's entry for the i-th
\* clip of audio_name, the empty list standing for a missing entry.
C7_MissingClipIsEmpty ==
    (evals > 0 /\ output_dict.ok /\ output_dict.keys = TargetKeys) =>
        /\ outcome.kind = "returned"
        /\ Len(event_fed) = Len(output_dict.audio_name)
        /\ Len(segment_fed) = Len(output_dict.audio_name)
        /\ \A i \in DOMAIN output_dict.audio_name :
               LET name == output_dict.audio_name[i]
                   r == IF name \in DOMAIN reference_dict
                        THEN reference_dict[name] ELSE <<>>
                   q == IF name \in DOMAIN predict_dict
                        THEN predict_dict[name] ELSE <<>>
               IN event_fed[i] = <<r, q>> /\ segment_fed[i] = <<r, q>>

\* Two clips, the first in neither mapping, the second in both.
C7_Witness ==
    /\ evals > 0 /\ output_dict.ok /\ output_dict.keys = TargetKeys
    /\ Len(output_dict.audio_name) = 2
    /\ output_dict.audio_name[1] \notin DOMAIN reference_dict
    /\ output_dict.audio_name[1] \notin DOMAIN predict_dict
    /\ output_dict.audio_name[2] \in DOMAIN reference_dict
    /\ output_dict.audio_name[2] \in DOMAIN predict_dict
    /\ event_fed[1] = <<<<>>, <<>>>>
    /\ event_fed[2][1] # <<>>

\* C8: forward is invoked once per call of evaluate; when it raises, the call
\* raises the same error, writes no submission, reads no file, feeds no
\* metric engine and returns nothing.
C8_ForwardFailurePropagates ==
    /\ forward_calls = evals
    /\ (evals > 0 /\ ~output_dict.ok) =>
           /\ outcome = Raised(output_dict.error)
           /\ ~submission_written
           /\ files_read = <<>>
           /\ event_fed = <<>>
           /\ segment_fed = <<>>

\* A call whose forward pass raised, after a call that went through.
C8_Witness ==
    /\ evals = 2
    /\ ~output_dict.ok
    /\ outcome = Raised("OSError")
    /\ forward_calls = 2

\* ------------------------------------------------- Evaluator.visualize: claims
\* C6: for every class of a clip, a clipwise score below
\* audio_tagging_threshold means no detector call and no frame marked; any
\* other score means the detector ran on the class's framewise scores with
\* sed_high_threshold, sed_low_threshold, n_smooth and n_salt, and every
\* frame of every interval it returns is marked for the class.
C6_ClipLevelGate ==
    shown > 0 =>
        \A k \in Classes :
            IF clipwise_output[k] < sed_params_dict.audio_tagging_threshold
            THEN /\ k \notin detector_calls
                 /\ \A t \in DOMAIN event_prediction[k] :
                        event_prediction[k][t] = 0
            ELSE /\ vis_outcome = "plotted"
                 /\ k \in detector_calls
                 /\ LET pairs == activity_detection(framewise_output[k],
                                     sed_params_dict.sed_high_threshold,
                                     sed_params_dict.sed_low_threshold,
                                     sed_params_dict.n_smooth,
                                     sed_params_dict.n_salt)
                    IN \A i \in DOMAIN pairs : \A t \in pairs[i][1]..(pairs[i][2] - 1) :
                           event_prediction[k][t + 1] = 1

\* C9: the intervals the detector returns lie in [0, F] with 0 <= start <
\* end <= F, come in non-decreasing start order and do not overlap, so that
\* the frames the caller's marking loop writes for them lie in [0, F), no
\* frame is written twice, and every frame of every interval is written.
C9_IntervalsOrderedDisjoint ==
    detected =>
        LET marked == MarkFrames(bgn_fin_pairs, Len(x))
        IN /\ \A i \in DOMAIN bgn_fin_pairs :
                  /\ 0 <= bgn_fin_pairs[i][1]
                  /\ bgn_fin_pairs[i][1] < bgn_fin_pairs[i][2]
                  /\ bgn_fin_pairs[i][2] <= Len(x)
           /\ \A i, j \in DOMAIN bgn_fin_pairs :
                  i < j => /\ bgn_fin_pairs[i][1] <= bgn_fin_pairs[j][1]
                           /\ bgn_fin_pairs[i][2] <= bgn_fin_pairs[j][1]
           /\ \A i \in DOMAIN marked : marked[i] \in 0..(Len(x) - 1)
           /\ \A i, j \in DOMAIN marked : i # j => marked[i] # marked[j]
           /\ \A i \in DOMAIN bgn_fin_pairs :
                  \A t \in bgn_fin_pairs[i][1]..(bgn_fin_pairs[i][2] - 1) :
                      \E m \in DOMAIN marked : marked[m] = t

\* The detector has returned two intervals with both cleanup passes switched
\* on and the thresholds apart, the second interval ending at the last frame.
C9_Witness ==
    /\ detected
    /\ Len(bgn_fin_pairs) = 2
    /\ params.n_smooth >= 1
    /\ params.n_salt >= 1
    /\ params.low_thres < params.thres
    /\ bgn_fin_pairs[2][2] = Len(x)
    /\ Len(MarkFrames(bgn_fin_pairs, Len(x))) >= 2

====
